---- MODULE Spec2Model ----
(***************************************************************************)
(* Model of the puzzle-range tools of this repository:                     *)
(*   src/patterns.py    calculate_position_in_range (position of a key)    *)
(*   src/1000/poc.py    calculate_theoretical_key, get_user_input, main    *)
(*   src/txtcleaner.py  analyze_puzzle_data, save_json, main               *)
(*                                                                         *)
(* Python floats are binary floating point numbers, rounded to nearest     *)
(* with ties to even after every operation.  The model keeps that          *)
(* behaviour and scales the significand from 53 bits down to MantBits, so  *)
(* that the integers at which rounding starts (2^MantBits) are within      *)
(* reach of the model checker.  Exponent overflow (1.8e308) is out of the  *)
(* bounds and is not modelled.                                             *)
(***************************************************************************)
EXTENDS Integers, Sequences, FiniteSets, TLC

\* ---------------------------------------------------------------- bounds
MantBits == 5      \* significand width of the modelled float (53 in CPython)
MaxSize == 36      \* largest range size drawn for the interval functions
MaxRecords == 2    \* longest record list given to the txtcleaner pipeline
MaxBoard == 6      \* longest record list given to the leaderboard runs

\* ------------------------------------------------------- float arithmetic
\* A finite float is m * 2^e with m odd (or m = 0, e = 0); inf is +1/-1 for
\* float('inf') / float('-inf').
Fl(m, e) == [m |-> m, e |-> e, inf |-> 0]
PosInf == [m |-> 0, e |-> 0, inf |-> 1]
NegInf == [m |-> 0, e |-> 0, inf |-> -1]

Abs(x) == IF x < 0 THEN -x ELSE x

Pow2(n) == 2^n

RECURSIVE Norm(_, _)
Norm(m, e) ==
    IF m = 0 THEN Fl(0, 0)
    ELSE IF m % 2 = 0 THEN Norm(m \div 2, e + 1)
    ELSE Fl(m, e)

\* numerator and denominator of the exact value of a finite float
Num(x) == IF x.e >= 0 THEN x.m * Pow2(x.e) ELSE x.m
Den(x) == IF x.e >= 0 THEN 1 ELSE Pow2(-x.e)

ScaledNum(n, e) == IF e >= 0 THEN n ELSE n * Pow2(-e)
ScaledDen(d, e) == IF e >= 0 THEN d * Pow2(e) ELSE d

\* the exponent e with 2^(MantBits-1) <= n / (d * 2^e) < 2^MantBits
RECURSIVE Exponent(_, _, _)
Exponent(n, d, e) ==
    IF ScaledNum(n, e) >= ScaledDen(d, e) * Pow2(MantBits)
    THEN Exponent(n, d, e + 1)
    ELSE IF ScaledNum(n, e) < ScaledDen(d, e) * Pow2(MantBits - 1)
    THEN Exponent(n, d, e - 1)
    ELSE e

\* the float nearest to n / d (d > 0), ties to the even significand
RoundQ(n, d) ==
    IF n = 0 THEN Fl(0, 0)
    ELSE LET a  == Abs(n)
             e  == Exponent(a, d, 0)
             sn == ScaledNum(a, e)
             sd == ScaledDen(d, e)
             q  == sn \div sd
             r  == sn % sd
             up == (2 * r > sd) \/ (2 * r = sd /\ q % 2 = 1)
             qq == IF up THEN q + 1 ELSE q
         IN  Norm(IF n < 0 THEN -qq ELSE qq, e)

\* float(i), i / j on two ints, and the float operators * / +
FloatOfInt(i) == RoundQ(i, 1)
Zero == FloatOfInt(0)
Hundred == FloatOfInt(100)
TrueDiv(i, j) == IF j > 0 THEN RoundQ(i, j) ELSE RoundQ(-i, -j)
FMul(x, y) == RoundQ(Num(x) * Num(y), Den(x) * Den(y))
FDiv(x, y) ==
    IF Num(y) > 0 THEN RoundQ(Num(x) * Den(y), Den(x) * Num(y))
    ELSE RoundQ(-(Num(x) * Den(y)), Den(x) * (-Num(y)))
FAdd(x, y) == RoundQ(Num(x) * Den(y) + Num(y) * Den(x), Den(x) * Den(y))

\* x < y and x <= y on floats, infinities included
FLt(x, y) ==
    IF x.inf # 0 \/ y.inf # 0 THEN
        IF x.inf = 0 THEN y.inf = 1
        ELSE IF y.inf = 0 THEN x.inf = -1
        ELSE x.inf < y.inf
    ELSE Num(x) * Den(y) < Num(y) * Den(x)
FLe(x, y) == ~FLt(y, x)

\* the builtins min(a, b) and max(a, b): the first argument wins a tie
FMin(a, b) == IF FLt(b, a) THEN b ELSE a
FMax(a, b) == IF FLt(a, b) THEN b ELSE a

\* int(x): truncation toward zero
IntOfFloat(x) ==
    IF Num(x) >= 0 THEN Num(x) \div Den(x) ELSE -((-Num(x)) \div Den(x))

\* ------------------------------------------------------------ hex strings
\* A hex string is the sequence of the values of its digits.
RECURSIVE hex_to_int(_)
hex_to_int(hex_str) ==
    IF hex_str = <<>> THEN 0
    ELSE 16 * hex_to_int(SubSeq(hex_str, 1, Len(hex_str) - 1))
         + hex_str[Len(hex_str)]

\* the digits of n >= 0 without padding (hex(n)[2:])
RECURSIVE HexDigits(_)
HexDigits(n) ==
    IF n < 16 THEN <<n>> ELSE Append(HexDigits(n \div 16), n % 16)

Max2(a, b) == IF a > b THEN a ELSE b
Min2(a, b) == IF a < b THEN a ELSE b

\* ------------------------------------------------------------- variables
VARIABLES
    \* interval functions (patterns.py, poc.py)
    kpc,              \* which call has been made on the drawn inputs
    range_start_hex,  \* argument: range start, hex string
    range_end_hex,    \* argument: range end, hex string
    key_hex,          \* argument: key, hex string
    position,         \* argument / typed input: position percentage
    computed,         \* result of calculate_position_in_range
    results,          \* result of calculate_theoretical_key
    \* txtcleaner.py main
    input_file,       \* prevsolv.txt: missing, or its candidate entries
    pc,               \* position of main
    puzzles,          \* the list main holds and hands to analyze_puzzle_data
    extracted,        \* history: the list as clean_puzzle_data returned it
    analysis,         \* the dict analyze_puzzle_data returned
    cleaned_file,     \* cleaned_puzzles.json
    analysis_file,    \* puzzle_analysis.json
    message           \* the error line main printed, if any

keyVars == <<kpc, range_start_hex, range_end_hex, key_hex, position,
             computed, results>>
mainVars == <<input_file, pc, puzzles, extracted, analysis, cleaned_file, analysis_file,
              message>>
vars == <<kpc, range_start_hex, range_end_hex, key_hex, position, computed,
          results, input_file, pc, puzzles, extracted, analysis, cleaned_file,
          analysis_file, message>>

None == [none |-> TRUE]

\* ---------------------------------------------------------- patterns.py
calculate_position_in_range(key, range_start, range_end) ==
    LET key_int    == hex_to_int(key)
        start_int  == hex_to_int(range_start)
        end_int    == hex_to_int(range_end)
        range_size == end_int - start_int
    IN  IF range_size = 0
        THEN (IF key_int = start_int THEN Hundred ELSE Zero)
        ELSE FMul(TrueDiv(key_int - start_int, range_size), Hundred)

\* ---------------------------------------------------------- 1000/poc.py
\* The hex renderings of the result ("hex", "hex_padded", "start_hex",
\* "end_hex") echo the decimal fields and are left out.
calculate_theoretical_key(start_hex, end_hex, position_percentage) ==
    LET start      == hex_to_int(start_hex)
        end        == hex_to_int(end_hex)
        range_size == end - start
        theoretical_pos ==
            IntOfFloat(FAdd(FloatOfInt(start),
                            FMul(FloatOfInt(range_size),
                                 FDiv(position_percentage, Hundred))))
        one_percent  == IntOfFloat(FMul(FloatOfInt(range_size), RoundQ(1, 100)))
        search_start == Max2(start, theoretical_pos - one_percent)
        search_end   == Min2(end, theoretical_pos + one_percent)
    IN  [range_info |-> [start_dec |-> start, end_dec |-> end,
                         size |-> range_size],
         theoretical_key |-> [decimal |-> theoretical_pos],
         search_range |-> [start_dec |-> search_start,
                           end_dec |-> search_end,
                           size |-> search_end - search_start]]

\* get_user_input's test on the typed percentage: 0 <= position <= 100
PositionAccepted(p) == FLe(Zero, p) /\ FLe(p, Hundred)

\* the percentages typed or passed: float("-20"), float("49.28"), ...
PercentInputs == {RoundQ(-20, 1), RoundQ(0, 1), RoundQ(4928, 100),
                  RoundQ(50, 1), RoundQ(100, 1), RoundQ(150, 1)}
StartInputs == {0, 1, 3}

KeyInit ==
    /\ kpc = "init"
    /\ \E s \in StartInputs, size \in 0..MaxSize :
         /\ range_start_hex = HexDigits(s)
         /\ range_end_hex = HexDigits(s + size)
         /\ \E k \in Max2(0, s - 1)..(s + size + 1) : key_hex = HexDigits(k)
    /\ position \in PercentInputs
    /\ computed = None
    /\ results = None

\* a caller applies calculate_position_in_range to (key, start, end)
CallPosition ==
    /\ kpc = "init"
    /\ computed' = calculate_position_in_range(key_hex, range_start_hex,
                                               range_end_hex)
    /\ kpc' = "positioned"
    /\ UNCHANGED <<range_start_hex, range_end_hex, key_hex, position, results>>

\* a caller applies calculate_theoretical_key to (start, end, position)
CallTheoretical ==
    /\ kpc = "init"
    /\ results' = calculate_theoretical_key(range_start_hex, range_end_hex,
                                            position)
    /\ kpc' = "calculated"
    /\ UNCHANGED <<range_start_hex, range_end_hex, key_hex, position, computed>>

\* the computed percentage is fed back into calculate_theoretical_key
CallRoundTrip ==
    /\ kpc = "positioned"
    /\ results' = calculate_theoretical_key(range_start_hex, range_end_hex,
                                            computed)
    /\ kpc' = "roundtrip"
    /\ UNCHANGED <<range_start_hex, range_end_hex, key_hex, position, computed>>

\* poc.py get_user_input: the loop leaves with a percentage in [0, 100] ...
PromptAccept ==
    /\ kpc = "init"
    /\ PositionAccepted(position)
    /\ kpc' = "accepted"
    /\ UNCHANGED <<range_start_hex, range_end_hex, key_hex, position,
                   computed, results>>

\* ... and otherwise says "Position must be between 0 and 100" and reads
\* the next line
PromptReject ==
    /\ kpc = "init"
    /\ ~PositionAccepted(position)
    /\ position' \in PercentInputs
    /\ UNCHANGED <<kpc, range_start_hex, range_end_hex, key_hex, computed,
                   results>>

\* poc.py main: calculate_theoretical_key on what get_user_input returned
PocMain ==
    /\ kpc = "accepted"
    /\ results' = calculate_theoretical_key(range_start_hex, range_end_hex,
                                            position)
    /\ kpc' = "poc_done"
    /\ UNCHANGED <<range_start_hex, range_end_hex, key_hex, position, computed>>

\* -------------------------------------------------------- txtcleaner.py
\* A date "YYYY-MM-DD" is <<year, month, day>>; the fields have fixed widths,
\* so the string order the sort uses is the order of the triples.
DateLt(a, b) ==
    \/ a[1] < b[1]
    \/ a[1] = b[1] /\ a[2] < b[2]
    \/ a[1] = b[1] /\ a[2] = b[2] /\ a[3] < b[3]

Front(s) == SubSeq(s, 1, Len(s) - 1)
Last(s) == s[Len(s)]

\* a slip: an item goes in front of the items that share its date
InsertByDateUnstable(sorted, x) ==
    LET k == Cardinality({i \in 1..Len(sorted) :
                            DateLt(sorted[i].solve_date, x.solve_date)})
    IN  SubSeq(sorted, 1, k) \o <<x>> \o SubSeq(sorted, k + 1, Len(sorted))

\* list.sort(key=solve_date) is stable: x, the last item of the list, goes
\* behind every item whose date is not later than its own
InsertByDate(sorted, x) ==
    LET k == Cardinality({i \in 1..Len(sorted) :
                            ~DateLt(x.solve_date, sorted[i].solve_date)})
    IN  SubSeq(sorted, 1, k) \o <<x>> \o SubSeq(sorted, k + 1, Len(sorted))

RECURSIVE SortByDate(_)
SortByDate(s) ==
    IF s = <<>> THEN <<>> ELSE InsertByDate(SortByDate(Front(s)), Last(s))

\* solver_counts: a dict keeps its keys in the order of first insertion
RECURSIVE SolverCounts(_)
SolverCounts(s) ==
    IF s = <<>> THEN <<>>
    ELSE LET prev   == SolverCounts(Front(s))
             solver == Last(s).solver
         IN  IF \E i \in 1..Len(prev) : prev[i].solver = solver
             THEN [i \in 1..Len(prev) |->
                     IF prev[i].solver = solver
                     THEN [solver |-> solver, count |-> prev[i].count + 1]
                     ELSE prev[i]]
             ELSE Append(prev, [solver |-> solver, count |-> 1])

\* a slip: an item goes in front of the items that share its count
InsertByCountUnstable(sorted, x) ==
    LET k == Cardinality({i \in 1..Len(sorted) : sorted[i].count > x.count})
    IN  SubSeq(sorted, 1, k) \o <<x>> \o SubSeq(sorted, k + 1, Len(sorted))

\* sorted(items, key=count, reverse=True) is stable as well
InsertByCount(sorted, x) ==
    LET k == Cardinality({i \in 1..Len(sorted) : sorted[i].count >= x.count})
    IN  SubSeq(sorted, 1, k) \o <<x>> \o SubSeq(sorted, k + 1, Len(sorted))

RECURSIVE SortByCountDesc(_)
SortByCountDesc(s) ==
    IF s = <<>> THEN <<>>
    ELSE InsertByCount(SortByCountDesc(Front(s)), Last(s))

TopN == 5

TopSolvers(solver_counts) ==
    SubSeq(SortByCountDesc(solver_counts), 1, Min2(TopN, Len(solver_counts)))

\* position_in_range of the range analysis
PositionInRange(key_value, range_start, range_size) ==
    IF range_size > 0
    THEN FMul(TrueDiv(key_value - range_start, range_size), Hundred)
    ELSE Hundred

RangePattern(puzzle) ==
    LET range_start == hex_to_int(puzzle.range_start)
        range_end   == hex_to_int(puzzle.range_end)
        key_value   == hex_to_int(puzzle.private_key)
        range_size  == range_end - range_start
    IN  [puzzle_number       |-> puzzle.puzzle_number,
         range_start_hex     |-> puzzle.range_start,
         range_end_hex       |-> puzzle.range_end,
         range_start_decimal |-> range_start,
         range_end_decimal   |-> range_end,
         range_size          |-> range_size,
         key_decimal         |-> key_value,
         position_in_range   |-> PositionInRange(key_value, range_start,
                                                 range_size),
         distance_from_start |-> key_value - range_start,
         distance_from_end   |-> range_end - key_value]

\* a slip: the statistics taken of the computed position
StatPositionComputed(puzzle) == RangePattern(puzzle).position_in_range

\* the value the position statistics are taken of
StatPosition(puzzle) == puzzle.position_percentage

\* the running min / max / total of the loop
RECURSIVE PositionFold(_)
PositionFold(s) ==
    IF s = <<>>
    THEN [min |-> PosInf, max |-> NegInf, total |-> Zero]
    ELSE LET prev == PositionFold(Front(s))
             pos  == StatPosition(Last(s))
         IN  [min   |-> FMin(prev.min, pos),
              max   |-> FMax(prev.max, pos),
              total |-> FAdd(prev.total, pos)]

\* the list the caller holds once analyze_puzzle_data has returned
ListAfterAnalyze(list) == SortByDate(list)

\* a slip: the report of an empty list without its marker
EmptyReportUnmarked ==
    [total_puzzles  |-> 0,
     unique_solvers |-> 0,
     top_solvers    |-> <<>>,
     position_stats |-> <<>>,
     first_solve    |-> <<>>,
     last_solve     |-> <<>>]

\* the dict returned for an empty list; None and {} are <<>>
EmptyReport ==
    [error          |-> "No puzzle data found",
     total_puzzles  |-> 0,
     unique_solvers |-> 0,
     top_solvers    |-> <<>>,
     position_stats |-> <<>>,
     first_solve    |-> <<>>,
     last_solve     |-> <<>>]

\* the dict analyze_puzzle_data returns for the list it is given
analyze_puzzle_data(list) ==
    IF list = <<>>
    THEN EmptyReport
    ELSE LET sorted        == SortByDate(list)
             solver_counts == SolverCounts(sorted)
             fold          == PositionFold(sorted)
         IN  [total_puzzles  |-> Len(sorted),
              unique_solvers |-> Len(solver_counts),
              top_solvers    |-> TopSolvers(solver_counts),
              position_stats |->
                  [min     |-> fold.min,
                   max     |-> fold.max,
                   total   |-> fold.total,
                   count   |-> Len(sorted),
                   average |-> FDiv(fold.total, FloatOfInt(Len(sorted)))],
              first_solve    |-> sorted[1].solve_date,
              last_solve     |-> sorted[Len(sorted)].solve_date,
              solver_stats   |->
                  [i \in 1..Len(solver_counts) |->
                     [solver |-> solver_counts[i].solver,
                      puzzles_solved |-> solver_counts[i].count]],
              range_patterns |->
                  [i \in 1..Len(sorted) |-> RangePattern(sorted[i])]]

\* A candidate entry of the blob is text the entry pattern matches
\* (kind "entry"), text it does not match ("garbage"), or text it matches
\* with a percentage token float() cannot read, such as 1.2.3 ("badfloat").
\* parse_puzzle_line converts the captured groups of a matching entry.
parse_puzzle_line(entry) ==
    [puzzle_number       |-> entry.puzzle_number,
     range_start         |-> entry.range_start,
     range_end           |-> entry.range_end,
     private_key         |-> entry.private_key,
     btc_address         |-> entry.btc_address,
     position_percentage |-> RoundQ(entry.position[1], entry.position[2]),
     solve_date          |-> entry.solve_date,
     solver              |-> entry.solver]

Matches(entry) == entry.kind = "entry"

\* re.search finds the entry pattern in the candidate: [\d.]+ takes the
\* percentage token whether or not float() can read it
PatternFound(entry) == entry.kind \in {"entry", "badfloat"}

\* float(position) raises ValueError inside parse_puzzle_line
CleanRaises(entries) == \E i \in 1..Len(entries) : entries[i].kind = "badfloat"

RECURSIVE clean_puzzle_data(_)
clean_puzzle_data(entries) ==
    IF entries = <<>> THEN <<>>
    ELSE IF Matches(Last(entries))
    THEN Append(clean_puzzle_data(Front(entries)),
                parse_puzzle_line(Last(entries)))
    ELSE clean_puzzle_data(Front(entries))

\* a file on disk: absent, cut short by a failed write, or written
Absent == [state |-> "absent", content |-> <<>>]
Partial == [state |-> "partial", content |-> <<>>]
Written(data) == [state |-> "written", content |-> data]

\* save_json: open(filename, 'w') may fail and leave the file as it was,
\* json.dump may fail after the file was created, or both succeed
save_json(data, old, io) ==
    IF io = "open_fails" THEN old
    ELSE IF io = "write_fails" THEN Partial
    ELSE Written(data)

IoOutcomes == {"ok", "open_fails", "write_fails"}

\* the key as the blob shows it: zero padding in front of the digits
PadKey(k) == <<0, 0>> \o HexDigits(k)

Dates == {<<2020, 12, 31>>, <<2021, 1, 15>>}
RangeKeyInputs == {<<4, 7, 5>>, <<5, 5, 5>>, <<5, 5, 7>>, <<7, 4, 5>>}
PositionTexts == {<<10, 1>>, <<4928, 100>>}

EntryChoices ==
    [kind : {"entry"}, rk : RangeKeyInputs, position : PositionTexts,
     solve_date : Dates, solver : {"alice", "bob"}]
    \cup {[kind |-> "garbage"], [kind |-> "badfloat"]}

MakeEntry(i, c) ==
    IF c.kind # "entry" THEN [kind |-> c.kind]
    ELSE [kind          |-> "entry",
          puzzle_number |-> i,
          range_start   |-> HexDigits(c.rk[1]),
          range_end     |-> HexDigits(c.rk[2]),
          private_key   |-> PadKey(c.rk[3]),
          btc_address   |-> "1addr",
          position      |-> c.position,
          solve_date    |-> c.solve_date,
          solver        |-> c.solver]

\* prevsolv.txt is missing, or holds up to MaxRecords candidate entries
FileInput(file) ==
    \/ file = [exists |-> FALSE, entries |-> <<>>]
    \/ \E n \in 0..MaxRecords : \E c \in [1..n -> EntryChoices] :
         file = [exists |-> TRUE,
                 entries |-> [i \in 1..n |-> MakeEntry(i, c[i])]]

KeyIdle ==
    /\ kpc = "idle"
    /\ range_start_hex = <<>>
    /\ range_end_hex = <<>>
    /\ key_hex = <<>>
    /\ position = None
    /\ computed = None
    /\ results = None

Init ==
    /\ KeyIdle
    /\ FileInput(input_file)
    /\ pc = "start"
    /\ puzzles = <<>>
    /\ extracted = <<>>
    /\ analysis = None
    /\ cleaned_file = Absent
    /\ analysis_file = Absent
    /\ message = "none"

\* main: open('prevsolv.txt') and read it
MainRead ==
    /\ pc = "start"
    /\ input_file.exists
    /\ pc' = "read"
    /\ UNCHANGED <<input_file, puzzles, extracted, analysis, cleaned_file,
                   analysis_file, message>>

\* main: except FileNotFoundError
MainReadMissing ==
    /\ pc = "start"
    /\ ~input_file.exists
    /\ pc' = "done"
    /\ message' = "Error: Input file 'prevsolv.txt' not found"
    /\ UNCHANGED <<input_file, puzzles, extracted, analysis, cleaned_file,
                   analysis_file>>

\* main: puzzles = clean_puzzle_data(data), and the test for an empty list
MainClean ==
    /\ pc = "read"
    /\ ~CleanRaises(input_file.entries)
    /\ puzzles' = clean_puzzle_data(input_file.entries)
    /\ extracted' = puzzles'
    /\ IF puzzles' = <<>>
       THEN /\ pc' = "done"
            /\ message' = "Error: No valid puzzle data found in input file"
       ELSE /\ pc' = "cleaned"
            /\ UNCHANGED message
    /\ UNCHANGED <<input_file, analysis, cleaned_file, analysis_file>>

\* main: clean_puzzle_data raised, except Exception
MainCleanRaises ==
    /\ pc = "read"
    /\ CleanRaises(input_file.entries)
    /\ pc' = "done"
    /\ message' = "Error processing data"
    /\ UNCHANGED <<input_file, puzzles, extracted, analysis, cleaned_file,
                   analysis_file>>

\* main: save_json(puzzles, 'cleaned_puzzles.json')
MainSaveCleaned ==
    /\ pc = "cleaned"
    /\ \E io \in IoOutcomes :
         /\ cleaned_file' = save_json(puzzles, cleaned_file, io)
         /\ IF io = "ok"
            THEN pc' = "saved" /\ UNCHANGED message
            ELSE pc' = "done" /\ message' = "Error processing data"
    /\ UNCHANGED <<input_file, puzzles, extracted, analysis, analysis_file>>

\* main: analysis = analyze_puzzle_data(puzzles); the list is sorted in place
MainAnalyze ==
    /\ pc = "saved"
    /\ analysis' = analyze_puzzle_data(puzzles)
    /\ puzzles' = ListAfterAnalyze(puzzles)
    /\ pc' = "analyzed"
    /\ UNCHANGED <<input_file, extracted, cleaned_file, analysis_file, message>>

\* main: save_json(analysis, 'puzzle_analysis.json')
MainSaveAnalysis ==
    /\ pc = "analyzed"
    /\ \E io \in IoOutcomes :
         /\ analysis_file' = save_json(analysis, analysis_file, io)
         /\ IF io = "ok"
            THEN pc' = "saved_analysis" /\ UNCHANGED message
            ELSE pc' = "done" /\ message' = "Error processing data"
    /\ UNCHANGED <<input_file, puzzles, extracted, analysis, cleaned_file>>

\* main: the summary is written to the terminal
MainSummary ==
    /\ pc = "saved_analysis"
    /\ pc' = "done"
    /\ message' = "Bitcoin Puzzle Analysis Summary"
    /\ UNCHANGED <<input_file, puzzles, extracted, analysis, cleaned_file,
                   analysis_file>>

Next ==
    \/ MainRead /\ UNCHANGED keyVars
    \/ MainReadMissing /\ UNCHANGED keyVars
    \/ MainClean /\ UNCHANGED keyVars
    \/ MainCleanRaises /\ UNCHANGED keyVars
    \/ MainSaveCleaned /\ UNCHANGED keyVars
    \/ MainAnalyze /\ UNCHANGED keyVars
    \/ MainSaveAnalysis /\ UNCHANGED keyVars
    \/ MainSummary /\ UNCHANGED keyVars

Spec == Init /\ [][Next]_vars

\* ---------------------------------------------- the interval functions
MainIdle ==
    /\ input_file = [exists |-> FALSE, entries |-> <<>>]
    /\ pc = "idle"
    /\ puzzles = <<>>
    /\ extracted = <<>>
    /\ analysis = None
    /\ cleaned_file = Absent
    /\ analysis_file = Absent
    /\ message = "none"

InitKey == KeyInit /\ MainIdle

NextKey ==
    \/ CallPosition /\ UNCHANGED mainVars
    \/ CallTheoretical /\ UNCHANGED mainVars
    \/ CallRoundTrip /\ UNCHANGED mainVars
    \/ PromptAccept /\ UNCHANGED mainVars
    \/ PromptReject /\ UNCHANGED mainVars
    \/ PocMain /\ UNCHANGED mainVars

SpecKey == InitKey /\ [][NextKey]_vars

\* ------------------------------- analyze_puzzle_data called on its own
\* The k-th solver to appear in the list is SolverNames[k]: the function
\* only tests solver tokens for equality.  The records differ in solver and
\* date; their range is that of puzzle 1, 1:1 with key 1.
SolverNames == <<"s1", "s2", "s3", "s4", "s5", "s6">>

FirstSeenOrder(f, n) ==
    \A i \in 1..n :
        LET seen == {f[j] : j \in 1..(i - 1)}
        IN  f[i] \in seen \cup {1 + Cardinality(seen)}

BoardRecord(i, solverIx, date) ==
    [puzzle_number       |-> i,
     range_start         |-> <<1>>,
     range_end           |-> <<1>>,
     private_key         |-> <<0, 0, 1>>,
     btc_address         |-> "1addr",
     position_percentage |-> Hundred,
     solve_date          |-> date,
     solver              |-> SolverNames[solverIx]]

BoardInput(list) ==
    \E n \in 0..MaxBoard :
      \E f \in {g \in [1..n -> 1..Len(SolverNames)] : FirstSeenOrder(g, n)} :
        \E d \in [1..n -> Dates] :
          list = [i \in 1..n |-> BoardRecord(i, f[i], d[i])]

InitBoard ==
    /\ KeyIdle
    /\ input_file = [exists |-> FALSE, entries |-> <<>>]
    /\ pc = "call"
    /\ BoardInput(puzzles)
    /\ extracted = puzzles
    /\ analysis = None
    /\ cleaned_file = Absent
    /\ analysis_file = Absent
    /\ message = "none"

\* a caller hands its list to analyze_puzzle_data
AnalyzeCall ==
    /\ pc = "call"
    /\ analysis' = analyze_puzzle_data(puzzles)
    /\ puzzles' = ListAfterAnalyze(puzzles)
    /\ pc' = "returned"
    /\ UNCHANGED <<input_file, extracted, cleaned_file, analysis_file, message>>

NextBoard == AnalyzeCall /\ UNCHANGED keyVars

SpecBoard == InitBoard /\ [][NextBoard]_vars

\* ------------------------------------------------------------ properties
\* analyze_puzzle_data has returned the report of a non-empty list
Reported == analysis # None /\ extracted # <<>>

RECURSIVE FloatSum(_)
FloatSum(fs) ==
    IF fs = <<>> THEN Zero ELSE FAdd(FloatSum(Front(fs)), Last(fs))

\* st.min, st.max and st.average are the least and the greatest of the
\* floats fs and their running sum divided by their number
StatsOf(st, fs) ==
    /\ \E i \in 1..Len(fs) : st.min = fs[i]
    /\ \A i \in 1..Len(fs) : FLe(st.min, fs[i])
    /\ \E i \in 1..Len(fs) : st.max = fs[i]
    /\ \A i \in 1..Len(fs) : FLe(fs[i], st.max)
    /\ st.average = FDiv(FloatSum(fs), FloatOfInt(Len(fs)))

ComputedPositions ==
    [i \in 1..Len(analysis.range_patterns) |->
       analysis.range_patterns[i].position_in_range]
ReportedPositions ==
    [i \in 1..Len(puzzles) |-> puzzles[i].position_percentage]

C2_Claim ==
    Reported =>
      \A i \in 1..Len(puzzles) :
        analysis.range_patterns[i].position_in_range =
          calculate_position_in_range(puzzles[i].private_key,
                                      puzzles[i].range_start,
                                      puzzles[i].range_end)

\* C3: after analyze_puzzle_data has returned, the caller's list holds the
\* same records in the same order as before the call.
C3_Claim == analysis # None => puzzles = extracted

\* main stopped on a failed step
Failed ==
    /\ pc = "done"
    /\ message \in {"Error: Input file 'prevsolv.txt' not found",
                    "Error processing data"}

\* C4: if a step of the pipeline fails, no output artifact has been written.
C4_Claim == Failed => cleaned_file = Absent /\ analysis_file = Absent

\* C5: calculate_theoretical_key returns no theoretical key and no search
\* window for a position percentage outside [0, 100].
C5_Claim == kpc = "calculated" => PositionAccepted(position)

\* C6: for start <= end and every percentage given to
\* calculate_theoretical_key, start <= search_start <= search_end <= end.
C6_Claim ==
    (results # None /\ results.range_info.start_dec <= results.range_info.end_dec)
    => /\ results.range_info.start_dec <= results.search_range.start_dec
       /\ results.search_range.start_dec <= results.search_range.end_dec
       /\ results.search_range.end_dec <= results.range_info.end_dec

\* C9: for end > start and start <= key <= end the computed percentage lies
\* in [0, 100], and calculate_theoretical_key on that percentage returns a
\* theoretical key at most 1 away from key.
C9_Claim ==
    (/\ kpc = "roundtrip"
     /\ results.range_info.end_dec > results.range_info.start_dec
     /\ results.range_info.start_dec <= hex_to_int(key_hex)
     /\ hex_to_int(key_hex) <= results.range_info.end_dec)
    => /\ PositionAccepted(computed)
       /\ Abs(results.theoretical_key.decimal - hex_to_int(key_hex)) <= 1

\* record k of the list was met before record l in the date-sorted pass
Earlier(k, l) ==
    \/ DateLt(extracted[k].solve_date, extracted[l].solve_date)
    \/ extracted[k].solve_date = extracted[l].solve_date /\ k < l

RecordsOf(solver) == {k \in 1..Len(extracted) : extracted[k].solver = solver}

FirstSeenBefore(a, b) ==
    \E k \in RecordsOf(a) : \A l \in RecordsOf(b) : Earlier(k, l)

Outranks(a, b) ==
    \/ Cardinality(RecordsOf(a)) > Cardinality(RecordsOf(b))
    \/ /\ Cardinality(RecordsOf(a)) = Cardinality(RecordsOf(b))
       /\ FirstSeenBefore(a, b)

\* C7: top_solvers lists at most 5 actors, by count descending, actors with
\* equal counts in the order of their first record in the date-sorted list;
\* each listed count is the number of records of that actor, and no actor
\* left out outranks a listed one.
C7_TopSolvers ==
    Reported =>
      LET top     == analysis.top_solvers
          solvers == {extracted[k].solver : k \in 1..Len(extracted)}
          listed  == {top[i].solver : i \in 1..Len(top)}
      IN  /\ Len(top) = Min2(5, Cardinality(solvers))
          /\ listed \subseteq solvers
          /\ \A i \in 1..Len(top) :
               top[i].count = Cardinality(RecordsOf(top[i].solver))
          /\ \A i, j \in 1..Len(top) :
               i < j => Outranks(top[i].solver, top[j].solver)
          /\ \A a \in listed, b \in solvers \ listed : Outranks(a, b)

C7_Witness ==
    /\ Reported
    /\ analysis.unique_solvers = 6
    /\ Len(analysis.top_solvers) = 5
    /\ \E k, l \in 1..Len(extracted) :
         k < l /\ DateLt(extracted[l].solve_date, extracted[k].solve_date)

\* C8: analyze_puzzle_data on an empty list returns a report with the
\* empty marker, total_puzzles = 0, unique_solvers = 0, an empty top_solvers
\* and first_solve = last_solve = null.
C8_EmptyReport ==
    (pc = "returned" /\ extracted = <<>>) =>
      /\ "error" \in DOMAIN analysis
      /\ analysis.total_puzzles = 0
      /\ analysis.unique_solvers = 0
      /\ analysis.top_solvers = <<>>
      /\ analysis.first_solve = <<>>
      /\ analysis.last_solve = <<>>

C8_Witness == pc = "returned" /\ extracted = <<>>

RecordNumbered(n) ==
    CHOOSE k \in 1..Len(extracted) : extracted[k].puzzle_number = n

\* C10: range_patterns lists every record once, in ascending solve_date
\* order, records of equal date in extraction order; first_solve is the
\* earliest and last_solve the latest solve_date; they are equal when all
\* records share one date.
C10_DateOrder ==
    Reported =>
      LET rp  == analysis.range_patterns
          n   == Len(extracted)
          dates == {extracted[k].solve_date : k \in 1..n}
      IN  /\ Len(rp) = n
          /\ {rp[i].puzzle_number : i \in 1..n} =
               {extracted[k].puzzle_number : k \in 1..n}
          /\ \A i, j \in 1..n :
               i < j => Earlier(RecordNumbered(rp[i].puzzle_number),
                                RecordNumbered(rp[j].puzzle_number))
          /\ analysis.first_solve \in dates
          /\ analysis.last_solve \in dates
          /\ \A d \in dates : ~DateLt(d, analysis.first_solve)
          /\ \A d \in dates : ~DateLt(analysis.last_solve, d)
          /\ (Cardinality(dates) = 1
                => analysis.first_solve = analysis.last_solve)

C10_Witness ==
    /\ Reported
    /\ Len(extracted) >= 3
    /\ extracted[1].solve_date = extracted[2].solve_date
    /\ DateLt(extracted[3].solve_date, extracted[1].solve_date)
    /\ analysis.range_patterns[1].puzzle_number = 3

\* main has run clean_puzzle_data on the blob it read
Cleaned == input_file.exists /\ pc \notin {"start", "read"}

\* clean_puzzle_data raised: main printed the error before anything was saved
CleanAborted ==
    /\ pc = "done"
    /\ message = "Error processing data"
    /\ puzzles = <<>>

MatchingCandidates ==
    {i \in 1..Len(input_file.entries) : PatternFound(input_file.entries[i])}

\* C11: clean_puzzle_data returns one record per candidate entry the pattern
\* matches, in blob order, drops the other candidates and never raises; a
\* blob with no matching candidate gives the empty list.
C11_Claim ==
    Cleaned =>
      /\ ~CleanAborted
      /\ Len(extracted) = Cardinality(MatchingCandidates)
      /\ {extracted[k].puzzle_number : k \in 1..Len(extracted)} =
           MatchingCandidates
      /\ \A k, l \in 1..Len(extracted) :
           k < l => extracted[k].puzzle_number < extracted[l].puzzle_number

====
